---- MODULE Spec2Model ----
(***************************************************************************)
(* A model of ml_studio/services/validation/conditions.py: the composite   *)
(* condition tree (BaseCondition / ConditionSet / Condition), the binding  *)
(* of the evaluated instance and attribute, the predicate selectors and    *)
(* the evaluation of a Condition and of a ConditionSet.                    *)
(***************************************************************************)
EXTENDS Integers, Sequences, FiniteSets, TLC

(***************************************************************************)
(* Python values.  Every value is a record of the same shape, so that any  *)
(* two values can be compared.                                             *)
(***************************************************************************)
PyNone == [t |-> "none", i |-> 0, s |-> ""]
PyInt(n) == [t |-> "int", i |-> n, s |-> ""]
PyStr(x) == [t |-> "str", i |-> 0, s |-> x]
PyBool(p) == [t |-> "bool", i |-> IF p THEN 1 ELSE 0, s |-> ""]
PyObj(k) == [t |-> "obj", i |-> k, s |-> ""]

PyTrue == PyBool(TRUE)
PyFalse == PyBool(FALSE)

\* The value Condition.__init__ and Condition._reset store in _is_valid.
NotEvaluated == PyStr("Not evaluated.")

\* bool(v) as all() and any() apply it to the members of a list.
Truthy(v) ==
    CASE v.t = "none" -> FALSE
      [] v.t = "bool" -> v.i = 1
      [] v.t = "int" -> v.i # 0
      [] v.t = "str" -> v.s # ""
      [] OTHER -> TRUE

(***************************************************************************)
(* The instances conditions are evaluated on.  Object 1 has the attributes *)
(* x and y, and its y holds a string that names its attribute x; object 2  *)
(* has the attribute x only.  None, numbers and strings have neither.      *)
(***************************************************************************)
Fields == << [x |-> PyInt(5), y |-> PyStr("x")], [x |-> PyInt(3)] >>

\* hasattr(instance, name)
hasattr(instance, name) ==
    /\ instance.t = "obj"
    /\ name \in DOMAIN Fields[instance.i]

\* getattr(instance, name), where hasattr(instance, name)
getattr(instance, name) == Fields[instance.i][name]

(***************************************************************************)
(* The predicate library (ml_studio.services.validation.utils), of which   *)
(* conditions.py holds the imports and the calls only.                     *)
(***************************************************************************)
IsNumber(a) == a.t \in {"int", "bool"}

\* The order of the strings the model uses, as Python compares them.
StrRank(x) ==
    CASE x = "" -> 0
      [] x = "lit" -> 1
      [] x = "x" -> 2
      [] x = "y" -> 3
      [] OTHER -> 4

\* The rank of a value among the values it can be compared with.
Rank(a) == IF a.t = "str" THEN StrRank(a.s) ELSE a.i

\* a < b, a <= b, a > b, a >= b raise TypeError on any other pair.
Comparable(a, b) ==
    \/ IsNumber(a) /\ IsNumber(b)
    \/ a.t = "str" /\ b.t = "str"

is_none(a) == a.t = "none"

is_not_none(a) == a.t # "none"

is_empty(a) == a.t = "str" /\ a.s = ""

is_not_empty(a) == ~is_empty(a)

is_bool(a) == a.t = "bool"

is_integer(a) == a.t = "int"

is_number(a) == IsNumber(a)

is_string(a) == a.t = "str"

is_equal(a, b) ==
    \/ a = b
    \/ IsNumber(a) /\ IsNumber(b) /\ a.i = b.i

is_not_equal(a, b) == ~is_equal(a, b)

is_less(a, b) == Rank(a) < Rank(b)

is_less_equal(a, b) == Rank(a) <= Rank(b)

is_greater(a, b) == Rank(a) > Rank(b)

is_greater_equal(a, b) == Rank(a) >= Rank(b)

\* re.search of the pattern b in a, for the patterns the model uses: plain
\* strings none of which is part of another, and the empty pattern.
is_match(a, b) == b.s = "" \/ a.s = b.s

UnaryFunctions ==
    {"is_none", "is_not_none", "is_empty", "is_not_empty",
     "is_bool", "is_integer", "is_number", "is_string"}

OrderFunctions == {"is_less", "is_less_equal", "is_greater", "is_greater_equal"}

BinaryFunctions == {"is_equal", "is_not_equal", "is_match"} \cup OrderFunctions

\* _eval_function before any selector is used.
NoFunction == "None"

\* The library function f raises on the operands a and b.
Raises(f, a, b) ==
    \/ f \in OrderFunctions /\ ~Comparable(a, b)
    \/ f = "is_match" /\ ~(a.t = "str" /\ b.t = "str")

\* The direct invocation of the library function f: unary(a), binary(a, b).
Direct(f, a, b) ==
    CASE f = "is_none" -> is_none(a)
      [] f = "is_not_none" -> is_not_none(a)
      [] f = "is_empty" -> is_empty(a)
      [] f = "is_not_empty" -> is_not_empty(a)
      [] f = "is_bool" -> is_bool(a)
      [] f = "is_integer" -> is_integer(a)
      [] f = "is_number" -> is_number(a)
      [] f = "is_string" -> is_string(a)
      [] f = "is_equal" -> is_equal(a, b)
      [] f = "is_not_equal" -> is_not_equal(a, b)
      [] f = "is_less" -> is_less(a, b)
      [] f = "is_less_equal" -> is_less_equal(a, b)
      [] f = "is_greater" -> is_greater(a, b)
      [] f = "is_greater_equal" -> is_greater_equal(a, b)
      [] f = "is_match" -> is_match(a, b)

(***************************************************************************)
(* The nodes.  A node is named by its id.  The outer set s1 can hold the    *)
(* inner set s2 and both conditions, the inner set can hold the condition  *)
(* c1 (which the two sets may share), so that no set holds itself.         *)
(***************************************************************************)
Sets == {"s1", "s2"}
Conds == {"c1", "c2"}
Nodes == Sets \cup Conds

\* The nodes the model adds to the set s.
Addable(s) == IF s = "s1" THEN {"s2", "c1", "c2"} ELSE {"c1"}

\* The longest child mapping the model builds.
MaxChildren == 2

VARIABLES
    is_valid,            \* node -> _is_valid
    evaluated_instance,  \* node -> _evaluated_instance
    evaluated_attribute, \* node -> _evaluated_attribute
    logical,             \* set -> _logical
    conditions,          \* set -> the keys of _conditions, in order
    a,                   \* condition -> _a
    b,                   \* condition -> _b
    eval_function,       \* condition -> the name of _eval_function
    given,               \* condition -> what the caller gave most recently:
                         \*   a to when, b and f to a selector, and whether
                         \*   the setter of b was used after that selector
    last                 \* the most recent call and how it ended

vars ==
    << is_valid, evaluated_instance, evaluated_attribute, logical,
       conditions, a, b, eval_function, given, last >>

\* The record of a call: the operation, the node it is called on, its value
\* argument, its node argument, how it ended and the node it returned.
Call(op, node, arg, child, out) ==
    [op |-> op, node |-> node, arg |-> arg, child |-> child, out |-> out,
     ret |-> IF out = "ok" THEN node ELSE ""]

Range(seq) == {seq[k] : k \in 1..Len(seq)}

\* BaseCondition.__init__, ConditionSet.__init__ and Condition.__init__
Init ==
    /\ is_valid = [n \in Nodes |-> IF n \in Sets THEN PyTrue ELSE NotEvaluated]
    /\ evaluated_instance = [n \in Nodes |-> PyNone]
    /\ evaluated_attribute = [n \in Nodes |-> PyNone]
    /\ logical = [s \in Sets |-> "all"]
    /\ conditions = [s \in Sets |-> << >>]
    /\ a = [c \in Conds |-> PyNone]
    /\ b = [c \in Conds |-> PyNone]
    /\ eval_function = [c \in Conds |-> NoFunction]
    /\ given = [c \in Conds |->
                  [a |-> PyNone, b |-> PyNone, f |-> NoFunction,
                   setter |-> FALSE]]
    /\ last = Call("init", "", PyNone, "", "ok")

(***************************************************************************)
(* Condition                                                               *)
(***************************************************************************)

\* BaseCondition.on, as a Condition inherits it
Condition_on(c, value) ==
    /\ evaluated_instance' = [evaluated_instance EXCEPT ![c] = value]
    /\ last' = Call("on", c, value, "", "ok")
    /\ UNCHANGED << is_valid, evaluated_attribute, logical, conditions,
                    a, b, eval_function, given >>

\* attribute(name) without the hasattr test
Validated_unchecked(instance, old, name) == PyStr(name)

\* The attribute a node holds after attribute(name): BaseCondition.attribute
\* and the first lines of ConditionSet.attribute.
Validated(instance, old, name) ==
    IF hasattr(instance, name) THEN PyStr(name) ELSE old

\* BaseCondition.attribute, as a Condition inherits it
Condition_attribute(c, name) ==
    /\ evaluated_attribute' =
          [evaluated_attribute EXCEPT
              ![c] = Validated(evaluated_instance[c], @, name)]
    /\ last' = Call("attribute", c, PyStr(name), "", "ok")
    /\ UNCHANGED << is_valid, evaluated_instance, logical, conditions,
                    a, b, eval_function, given >>

\* Condition.when with a call of _reset in it: the result of the evaluate
\* before is dropped.
when_resetting(c, value) ==
    /\ a' = [a EXCEPT ![c] = value]
    /\ is_valid' = [is_valid EXCEPT ![c] = NotEvaluated]
    /\ given' = [given EXCEPT ![c].a = value]
    /\ last' = Call("when", c, value, "", "ok")
    /\ UNCHANGED << evaluated_instance, evaluated_attribute,
                    logical, conditions, b, eval_function >>

\* Condition.when
when(c, value) ==
    /\ a' = [a EXCEPT ![c] = value]
    /\ given' = [given EXCEPT ![c].a = value]
    /\ last' = Call("when", c, value, "", "ok")
    /\ UNCHANGED << is_valid, evaluated_instance, evaluated_attribute,
                    logical, conditions, b, eval_function >>

\* The setter of Condition.b
b_setter(c, value) ==
    /\ b' = [b EXCEPT ![c] = value]
    /\ given' = [given EXCEPT ![c].setter = TRUE]
    /\ last' = Call("b", c, value, "", "ok")
    /\ UNCHANGED << is_valid, evaluated_instance, evaluated_attribute,
                    logical, conditions, a, eval_function >>

\* A selector of a predicate of one operand: it stores the function.
SelectUnary(c, f) ==
    /\ eval_function' = [eval_function EXCEPT ![c] = f]
    /\ given' = [given EXCEPT ![c].f = f]
    /\ last' = Call(f, c, PyNone, "", "ok")
    /\ UNCHANGED << is_valid, evaluated_instance, evaluated_attribute,
                    logical, conditions, a, b >>

\* A selector of a predicate of two operands: it stores b and the function.
SelectBinary(c, f, value) ==
    /\ b' = [b EXCEPT ![c] = value]
    /\ eval_function' = [eval_function EXCEPT ![c] = f]
    /\ given' = [given EXCEPT ![c].b = value, ![c].f = f, ![c].setter = FALSE]
    /\ last' = Call(f, c, value, "", "ok")
    /\ UNCHANGED << is_valid, evaluated_instance, evaluated_attribute,
                    logical, conditions, a >>

Condition_is_none(c) == SelectUnary(c, "is_none")

Condition_is_not_none(c) == SelectUnary(c, "is_not_none")

Condition_is_empty(c) == SelectUnary(c, "is_empty")

Condition_is_not_empty(c) == SelectUnary(c, "is_not_empty")

Condition_is_bool(c) == SelectUnary(c, "is_bool")

Condition_is_integer(c) == SelectUnary(c, "is_integer")

Condition_is_number(c) == SelectUnary(c, "is_number")

Condition_is_string(c) == SelectUnary(c, "is_string")

Condition_is_equal(c, value) == SelectBinary(c, "is_equal", value)

Condition_is_not_equal(c, value) == SelectBinary(c, "is_not_equal", value)

Condition_is_less(c, value) == SelectBinary(c, "is_less", value)

Condition_is_less_equal(c, value) == SelectBinary(c, "is_less_equal", value)

Condition_is_greater(c, value) == SelectBinary(c, "is_greater", value)

Condition_is_greater_equal(c, value) ==
    SelectBinary(c, "is_greater_equal", value)

Condition_is_match(c, value) == SelectBinary(c, "is_match", value)

\* _get_value as getattr(instance, a, None): a string that names no
\* attribute of the instance resolves to None.
get_value_no_fallback(instance, operand) ==
    IF operand.t = "str"
    THEN IF hasattr(instance, operand.s)
         THEN getattr(instance, operand.s)
         ELSE PyNone
    ELSE operand

\* Condition._get_value on the instance bound to the condition
get_value(instance, operand) ==
    IF operand.t = "str"
    THEN IF hasattr(instance, operand.s)
         THEN getattr(instance, operand.s)
         ELSE operand
    ELSE operand

\* The TypeError Python raises when None is called.
NoneNotCallable == "TypeError: 'NoneType' object is not callable"

\* The TypeError a library function raises on operands it cannot compare.
PredicateRaised == "TypeError: raised by the predicate"

\* How self._eval_function(self._a, self._b) ends: calling None raises the
\* TypeError of a call of None, and a library function may raise its own.
Outcome(f, x, y) ==
    IF f = NoFunction THEN NoneNotCallable
    ELSE IF Raises(f, x, y) THEN PredicateRaised
    ELSE "ok"

\* evaluate that stores its first operand as the result
Invoke_operand(f, x, y) == x

\* self._eval_function(self._b, self._a)
Invoke_swapped(f, x, y) == PyBool(Direct(f, y, x))

\* self._eval_function(self._a, self._b): every library function is called
\* with both operands, and a function of one operand reads the first only.
Invoke(f, x, y) == PyBool(Direct(f, x, y))

(***************************************************************************)
(* Evaluation.  The part of the state evaluate changes is a record st of   *)
(* the fields is_valid, a, b, conditions and out; out is "ok" until a call *)
(* raises, and a raised exception ends every enclosing evaluate.           *)
(***************************************************************************)
StateNow ==
    [is_valid |-> is_valid, a |-> a, b |-> b, conditions |-> conditions,
     out |-> "ok"]

\* Condition.evaluate that takes for its first operand the attribute the
\* condition is bound to, when it is bound to one the instance has.
EvalCondition_on_attribute(st, c) ==
    LET bound == /\ evaluated_attribute[c].t = "str"
                 /\ hasattr(evaluated_instance[c], evaluated_attribute[c].s)
        x == IF bound
             THEN getattr(evaluated_instance[c], evaluated_attribute[c].s)
             ELSE get_value(evaluated_instance[c], st.a[c])
        y == get_value(evaluated_instance[c], st.b[c])
        f == eval_function[c]
        out == Outcome(f, x, y)
    IN  [st EXCEPT
            !.a[c] = x,
            !.b[c] = y,
            !.is_valid[c] = IF out = "ok" THEN Invoke(f, x, y) ELSE NotEvaluated,
            !.out = out]

\* The AttributeError of a getattr that finds no attribute.
NoAttribute == "AttributeError"

\* Condition.evaluate with _get_value without its except clause: a string
\* operand that names no attribute of the instance ends the call.
EvalCondition_strict(st, c) ==
    LET named(v) == v.t = "str" => hasattr(evaluated_instance[c], v.s)
        x == get_value(evaluated_instance[c], st.a[c])
        y == get_value(evaluated_instance[c], st.b[c])
        f == eval_function[c]
        out == IF named(st.a[c]) /\ named(st.b[c])
               THEN Outcome(f, x, y)
               ELSE NoAttribute
    IN  [st EXCEPT
            !.a[c] = IF named(st.a[c]) THEN x ELSE @,
            !.b[c] = IF named(st.a[c]) /\ named(st.b[c]) THEN y ELSE @,
            !.is_valid[c] = IF out = "ok" THEN Invoke(f, x, y) ELSE NotEvaluated,
            !.out = out]

\* Condition.evaluate
EvalCondition(st, c) ==
    LET x == get_value(evaluated_instance[c], st.a[c])
        y == get_value(evaluated_instance[c], st.b[c])
        f == eval_function[c]
        out == Outcome(f, x, y)
    IN  [st EXCEPT
            !.a[c] = x,
            !.b[c] = y,
            !.is_valid[c] = IF out = "ok" THEN Invoke(f, x, y) ELSE NotEvaluated,
            !.out = out]

\* A store that puts the key at the end, taking it out of its place first
Store_at_end(keys, n) == Append(SelectSeq(keys, LAMBDA k : k # n), n)

\* dict.__setitem__ on the ordered child mapping: a key already in the
\* mapping keeps its place, a new key goes to the end.
Store(keys, n) == IF n \in Range(keys) THEN keys ELSE Append(keys, n)

\* dict.__delitem__ on the ordered child mapping
Delete(keys, n) == SelectSeq(keys, LAMBDA k : k # n)

\* Aggregate with 'none' computed as not all(is_valid)
Aggregate_none_as_not_all(combinator, results) ==
    IF combinator = "all"
    THEN PyBool(\A k \in 1..Len(results) : Truthy(results[k]))
    ELSE IF combinator = "any"
    THEN PyBool(\E k \in 1..Len(results) : Truthy(results[k]))
    ELSE PyBool(~(\A k \in 1..Len(results) : Truthy(results[k])))

\* all(is_valid), any(is_valid) and not any(is_valid) of ConditionSet.evaluate
Aggregate(combinator, results) ==
    IF combinator = "all"
    THEN PyBool(\A k \in 1..Len(results) : Truthy(results[k]))
    ELSE IF combinator = "any"
    THEN PyBool(\E k \in 1..Len(results) : Truthy(results[k]))
    ELSE PyBool(~(\E k \in 1..Len(results) : Truthy(results[k])))

RECURSIVE EvalNode(_, _), EvalChildren(_, _, _)

\* The comprehension of ConditionSet.evaluate from the k-th child on: each
\* child is evaluated and stored again under its id, until one raises.
EvalChildren(st, s, k) ==
    IF st.out # "ok" \/ k > Len(st.conditions[s])
    THEN st
    ELSE LET child == st.conditions[s][k]
             st1 == EvalNode(st, child)
             st2 == IF st1.out = "ok"
                    THEN [st1 EXCEPT
                             !.conditions[s] = Store(st1.conditions[s], child)]
                    ELSE st1
         IN  EvalChildren(st2, s, k + 1)

\* ConditionSet.evaluate without its first statement: the results the
\* children hold are aggregated as they are.
EvalConditionSet_stale(st, s) ==
    LET results == [k \in 1..Len(st.conditions[s]) |->
                       st.is_valid[st.conditions[s][k]]]
    IN  [st EXCEPT !.is_valid[s] = Aggregate(logical[s], results)]

\* ConditionSet.evaluate with the children evaluated under a handler that
\* swallows what they raise: the results they hold are aggregated.
EvalConditionSet_masking(st, s) ==
    LET st1 == EvalChildren(st, s, 1)
        results == [k \in 1..Len(st1.conditions[s]) |->
                       st1.is_valid[st1.conditions[s][k]]]
    IN  [st1 EXCEPT !.is_valid[s] = Aggregate(logical[s], results),
                    !.out = "ok"]

\* ConditionSet.evaluate
EvalConditionSet(st, s) ==
    LET st1 == EvalChildren(st, s, 1)
        results == [k \in 1..Len(st1.conditions[s]) |->
                       st1.is_valid[st1.conditions[s][k]]]
    IN  IF st1.out = "ok"
        THEN [st1 EXCEPT !.is_valid[s] = Aggregate(logical[s], results)]
        ELSE st1

\* condition.evaluate on a child of either class
EvalNode(st, n) ==
    IF n \in Sets THEN EvalConditionSet(st, n) ELSE EvalCondition(st, n)

\* evaluate as a call on the node n
Evaluate(n) ==
    LET st == EvalNode(StateNow, n)
    IN  /\ is_valid' = st.is_valid
        /\ a' = st.a
        /\ b' = st.b
        /\ conditions' = st.conditions
        /\ last' = Call("evaluate", n, PyNone, "", st.out)
        /\ UNCHANGED << evaluated_instance, evaluated_attribute, logical,
                        eval_function, given >>

\* Condition.evaluate as a call
Condition_evaluate(c) == c \in Conds /\ Evaluate(c)

\* ConditionSet.evaluate as a call
ConditionSet_evaluate(s) == s \in Sets /\ Evaluate(s)

(***************************************************************************)
(* ConditionSet                                                            *)
(***************************************************************************)

\* ConditionSet.reset
reset(s) ==
    /\ conditions' = [conditions EXCEPT ![s] = << >>]
    /\ last' = Call("reset", s, PyNone, "", "ok")
    /\ UNCHANGED << is_valid, evaluated_instance, evaluated_attribute,
                    logical, a, b, eval_function, given >>

\* The argument of get_condition when the caller gives none.
NoNode == "None"

\* The mapping itself, as get_condition returns it when called with no node.
TheMapping == "_conditions"

\* ConditionSet.get_condition: with no node it returns the mapping, with a
\* node it looks condition.id up, and an unknown id raises KeyError.
get_condition(s, n) ==
    LET known == n = NoNode \/ n \in Range(conditions[s])
    IN  /\ last' = [Call("get_condition", s, PyNone, n,
                         IF known THEN "ok" ELSE "KeyError")
                      EXCEPT !.ret = IF n = NoNode THEN TheMapping
                                     ELSE IF known THEN n ELSE ""]
        /\ UNCHANGED << is_valid, evaluated_instance, evaluated_attribute,
                        logical, conditions, a, b, eval_function, given >>

\* add_condition that gives the added node the instance and the attribute
\* of the set
add_condition_binding(s, n) ==
    /\ conditions' = [conditions EXCEPT ![s] = Store(@, n)]
    /\ evaluated_instance' =
          [evaluated_instance EXCEPT ![n] = evaluated_instance[s]]
    /\ evaluated_attribute' =
          [evaluated_attribute EXCEPT ![n] = evaluated_attribute[s]]
    /\ last' = Call("add_condition", s, PyNone, n, "ok")
    /\ UNCHANGED << is_valid, logical, a, b, eval_function, given >>

\* ConditionSet.add_condition
add_condition(s, n) ==
    /\ conditions' = [conditions EXCEPT ![s] = Store(@, n)]
    /\ last' = Call("add_condition", s, PyNone, n, "ok")
    /\ UNCHANGED << is_valid, evaluated_instance, evaluated_attribute,
                    logical, a, b, eval_function, given >>

\* ConditionSet.remove_condition as a pop with a default: an unknown id is
\* passed over in silence.
remove_condition_lenient(s, n) ==
    /\ conditions' = [conditions EXCEPT ![s] = Delete(@, n)]
    /\ last' = Call("remove_condition", s, PyNone, n, "ok")
    /\ UNCHANGED << is_valid, evaluated_instance, evaluated_attribute,
                    logical, a, b, eval_function, given >>

\* ConditionSet.remove_condition
remove_condition(s, n) ==
    /\ conditions' =
          IF n \in Range(conditions[s])
          THEN [conditions EXCEPT ![s] = Delete(@, n)]
          ELSE conditions
    /\ last' = Call("remove_condition", s, PyNone, n,
                    IF n \in Range(conditions[s]) THEN "ok" ELSE "KeyError")
    /\ UNCHANGED << is_valid, evaluated_instance, evaluated_attribute,
                    logical, a, b, eval_function, given >>

\* A selector of the combinator that aggregates at once the results the
\* children hold.
SetLogical_aggregating(s, combinator) ==
    /\ logical' = [logical EXCEPT ![s] = combinator]
    /\ is_valid' =
          [is_valid EXCEPT
              ![s] = Aggregate(combinator,
                               [k \in 1..Len(conditions[s]) |->
                                   is_valid[conditions[s][k]]])]
    /\ last' = Call(combinator, s, PyNone, "", "ok")
    /\ UNCHANGED << evaluated_instance, evaluated_attribute,
                    conditions, a, b, eval_function, given >>

\* A selector of the combinator
SetLogical(s, combinator) ==
    /\ logical' = [logical EXCEPT ![s] = combinator]
    /\ last' = Call(combinator, s, PyNone, "", "ok")
    /\ UNCHANGED << is_valid, evaluated_instance, evaluated_attribute,
                    conditions, a, b, eval_function, given >>

when_all_conditions_are_true(s) == SetLogical(s, "all")

when_any_condition_is_true(s) == SetLogical(s, "any")

when_no_conditions_are_true(s) == SetLogical(s, "none")

RECURSIVE OnNode(_, _, _), OnChildren(_, _, _, _)

\* The loop of ConditionSet.on from the k-th child on
OnChildren(inst, s, k, value) ==
    IF k > Len(conditions[s])
    THEN inst
    ELSE OnChildren(OnNode(inst, conditions[s][k], value), s, k + 1, value)

\* on(value) that stores the value in the node and in its own children, and
\* goes no deeper.
OnNode_shallow(inst, n, value) ==
    [m \in DOMAIN inst |->
        IF m = n \/ (n \in Sets /\ m \in Range(conditions[n]))
        THEN value
        ELSE inst[m]]

\* condition.on(value) on a node of either class: BaseCondition.on stores
\* the value, ConditionSet.on stores it and passes it to every child.
OnNode(inst, n, value) ==
    LET own == [inst EXCEPT ![n] = value]
    IN  IF n \in Sets THEN OnChildren(own, n, 1, value) ELSE own

\* ConditionSet.on
ConditionSet_on(s, value) ==
    /\ evaluated_instance' = OnNode(evaluated_instance, s, value)
    /\ last' = Call("on", s, value, "", "ok")
    /\ UNCHANGED << is_valid, evaluated_attribute, logical, conditions,
                    a, b, eval_function, given >>

RECURSIVE AttributeNode(_, _, _), AttributeChildren(_, _, _, _)

\* The loop of ConditionSet.attribute from the k-th child on
AttributeChildren(attr, s, k, name) ==
    IF k > Len(conditions[s])
    THEN attr
    ELSE AttributeChildren(AttributeNode(attr, conditions[s][k], name),
                           s, k + 1, name)

\* attribute(value) that checks the name against the instance of the node
\* it is called on and stores it in the children unchecked.
AttributeNode_overwrite(attr, n, name) ==
    [m \in DOMAIN attr |->
        IF m = n
        THEN Validated(evaluated_instance[n], attr[n], name)
        ELSE IF n \in Sets /\ m \in Range(conditions[n])
        THEN PyStr(name)
        ELSE attr[m]]

\* condition.attribute(value) on a node of either class: each node checks
\* the name against its own instance, and a set passes it to every child.
AttributeNode(attr, n, name) ==
    LET own == [attr EXCEPT ![n] = Validated(evaluated_instance[n], @, name)]
    IN  IF n \in Sets THEN AttributeChildren(own, n, 1, name) ELSE own

\* ConditionSet.attribute
ConditionSet_attribute(s, name) ==
    /\ evaluated_attribute' = AttributeNode(evaluated_attribute, s, name)
    /\ last' = Call("attribute", s, PyStr(name), "", "ok")
    /\ UNCHANGED << is_valid, evaluated_instance, logical, conditions,
                    a, b, eval_function, given >>

(***************************************************************************)
(* A single Condition, configured and evaluated.                           *)
(***************************************************************************)
InstanceInputs == {PyInt(5), PyStr(""), PyObj(1), PyObj(2)}
AttributeInputs == {"x", "y"}
WhenInputs ==
    {PyInt(5), PyTrue, PyStr(""), PyStr("x"), PyStr("y"), PyStr("lit")}
OperandInputs == {PyInt(3), PyStr("x"), PyStr("lit")}
SetterInputs == {PyInt(5)}

NextCondition ==
    \E c \in {"c1"} :
        \/ \E v \in InstanceInputs : Condition_on(c, v)
        \/ \E n \in AttributeInputs : Condition_attribute(c, n)
        \/ \E v \in WhenInputs : when(c, v)
        \/ \E v \in SetterInputs : b_setter(c, v)
        \/ Condition_is_none(c)
        \/ Condition_is_not_none(c)
        \/ Condition_is_empty(c)
        \/ Condition_is_not_empty(c)
        \/ Condition_is_bool(c)
        \/ Condition_is_integer(c)
        \/ Condition_is_number(c)
        \/ Condition_is_string(c)
        \/ \E v \in OperandInputs : Condition_is_equal(c, v)
        \/ \E v \in OperandInputs : Condition_is_not_equal(c, v)
        \/ \E v \in OperandInputs : Condition_is_less(c, v)
        \/ \E v \in OperandInputs : Condition_is_less_equal(c, v)
        \/ \E v \in OperandInputs : Condition_is_greater(c, v)
        \/ \E v \in OperandInputs : Condition_is_greater_equal(c, v)
        \/ \E v \in OperandInputs : Condition_is_match(c, v)
        \/ Condition_evaluate(c)

SpecCondition == Init /\ [][NextCondition]_vars

(***************************************************************************)
(* A tree of two sets and two conditions, bound to instances and           *)
(* attributes through its sets and through its nodes.                      *)
(***************************************************************************)
BindingInstances == {PyObj(1), PyObj(2)}

\* The model adds the node n to the set s: no mapping outgrows MaxChildren.
MayAdd(s, n) ==
    /\ n \in Addable(s)
    /\ n \in Range(conditions[s]) \/ Len(conditions[s]) < MaxChildren

NextBinding ==
    \/ \E s \in Sets :
        \/ \E n \in Nodes : MayAdd(s, n) /\ add_condition(s, n)
        \/ \E n \in Range(conditions[s]) : remove_condition(s, n)
        \/ reset(s)
        \/ \E v \in BindingInstances : ConditionSet_on(s, v)
        \/ \E n \in AttributeInputs : ConditionSet_attribute(s, n)
    \/ \E c \in Conds :
        \/ \E v \in BindingInstances : Condition_on(c, v)
        \/ \E n \in AttributeInputs : Condition_attribute(c, n)

SpecBinding == Init /\ [][NextBinding]_vars

(***************************************************************************)
(* A tree of two sets and two conditions, built, configured and evaluated. *)
(***************************************************************************)
NextEvaluation ==
    \/ \E s \in Sets :
        \/ \E n \in Nodes : MayAdd(s, n) /\ add_condition(s, n)
        \/ \E n \in Range(conditions[s]) : remove_condition(s, n)
        \/ reset(s)
        \/ when_all_conditions_are_true(s)
        \/ when_any_condition_is_true(s)
        \/ when_no_conditions_are_true(s)
        \/ ConditionSet_evaluate(s)
    \/ \E c \in Conds :
        \/ Condition_is_none(c)
        \/ Condition_is_not_none(c)
        \/ Condition_evaluate(c)

SpecEvaluation == Init /\ [][NextEvaluation]_vars

(***************************************************************************)
(* The child mappings of the two sets, with lookups and removals of nodes  *)
(* that are and are not in them.                                           *)
(***************************************************************************)
NextStructure ==
    \/ \E s \in Sets :
        \/ \E n \in Nodes : MayAdd(s, n) /\ add_condition(s, n)
        \/ \E n \in Addable(s) : remove_condition(s, n)
        \/ \E n \in Addable(s) \cup {NoNode} : get_condition(s, n)
        \/ reset(s)
        \/ ConditionSet_evaluate(s)
    \/ \E c \in Conds : Condition_is_none(c)

SpecStructure == Init /\ [][NextStructure]_vars

(***************************************************************************)
(* A tree whose sets may hold the same condition, its operand the name of  *)
(* an attribute of the instance the sets bind.                             *)
(***************************************************************************)
SharedInstances == {PyObj(1)}
SharedOperands == {PyStr("x"), PyStr("y")}

NextShared ==
    \/ \E s \in Sets :
        \/ \E n \in Nodes : MayAdd(s, n) /\ add_condition(s, n)
        \/ \E v \in SharedInstances : ConditionSet_on(s, v)
        \/ ConditionSet_evaluate(s)
    \/ \E c \in Conds :
        \/ \E v \in SharedOperands : when(c, v)
        \/ Condition_is_string(c)

SpecShared == Init /\ [][NextShared]_vars

(***************************************************************************)
(* A tree of two sets and a condition that is built, bound, given          *)
(* combinators and evaluated.                                              *)
(***************************************************************************)
CompositeInstances == {PyObj(1)}
CompositeAttributes == {"x"}
CompositeNodes == {"s1", "s2", "c1"}

NextComposite ==
    \/ \E s \in Sets :
        \/ \E n \in CompositeNodes : MayAdd(s, n) /\ add_condition(s, n)
        \/ \E n \in Range(conditions[s]) : remove_condition(s, n)
        \/ when_all_conditions_are_true(s)
        \/ when_any_condition_is_true(s)
        \/ when_no_conditions_are_true(s)
        \/ \E v \in CompositeInstances : ConditionSet_on(s, v)
        \/ \E n \in CompositeAttributes : ConditionSet_attribute(s, n)
        \/ ConditionSet_evaluate(s)
    \/ \E c \in {"c1"} : Condition_is_none(c)

SpecComposite == Init /\ [][NextComposite]_vars

(***************************************************************************)
(* Two conditions, each bound, configured and evaluated on its own.        *)
(***************************************************************************)
PairInstances == {PyObj(1)}
PairAttributes == {"x", "y"}
PairOperands == {PyInt(5), PyStr("x"), PyStr("y")}

NextPair ==
    \E c \in Conds :
        \/ \E v \in PairInstances : Condition_on(c, v)
        \/ \E n \in PairAttributes : Condition_attribute(c, n)
        \/ \E v \in PairOperands : when(c, v)
        \/ Condition_is_integer(c)
        \/ Condition_is_string(c)
        \/ Condition_evaluate(c)

SpecPair == Init /\ [][NextPair]_vars

(***************************************************************************)
(* The properties.                                                         *)
(***************************************************************************)

\* The call that ended most recently is op on the node n.
Ended(op, n) == last.op = op /\ last.node = n

\* The call that ended most recently is op on the node n, and it returned.
Returned(op, n) == Ended(op, n) /\ last.out = "ok"

\* The children of the set s, and every node below them.
RECURSIVE Descendants(_)
Descendants(s) ==
    LET direct == Range(conditions[s])
    IN  direct \cup UNION {Descendants(k) : k \in direct \cap Sets}

\* The combinator applied to the results the children of s hold.
Combined(s) ==
    LET results == {is_valid[n] : n \in Range(conditions[s])}
    IN  CASE logical[s] = "all" -> PyBool(results \subseteq {PyTrue})
          [] logical[s] = "any" -> PyBool(PyTrue \in results)
          [] logical[s] = "none" -> PyBool(PyTrue \notin results)

\* The result the node n holds is the one its own evaluate gives now.
Fresh(n) ==
    IF n \in Sets
    THEN is_valid[n] = Combined(n)
    ELSE is_valid[n] = PyBool(Direct(eval_function[n], a[n], b[n]))

\* An operand no instance resolves: anything but the name of an attribute.
Literal(v) == v.t # "str" \/ v.s \notin AttributeInputs

\* C1: when evaluate has returned on a set, the set's is_valid is its
\* combinator applied to the is_valid of its children (all: every child is
\* True; any: some child is True; none: no child is True), and each child,
\* a nested set included, holds the result of its own evaluation in that
\* call.
C1_SetAggregatesChildren ==
    \A s \in Sets :
        Returned("evaluate", s) =>
            /\ is_valid[s] = Combined(s)
            /\ \A n \in Range(conditions[s]) :
                   is_valid[n] \in {PyTrue, PyFalse} /\ Fresh(n)

\* The outer set, under any, holds the inner set (all, its child True) and a
\* condition that is False, and has evaluated to True.
C1_Witness ==
    /\ Returned("evaluate", "s1")
    /\ conditions["s1"] = << "s2", "c2" >>
    /\ conditions["s2"] = << "c1" >>
    /\ logical["s1"] = "any"
    /\ logical["s2"] = "all"
    /\ is_valid["c1"] = PyTrue
    /\ is_valid["c2"] = PyFalse
    /\ is_valid["s2"] = PyTrue
    /\ is_valid["s1"] = PyTrue

\* C2: two calls of evaluate in a row on the same node, with no call in
\* between, both returning, leave the same is_valid.
C2_EvaluateIdempotent ==
    [][(/\ last.op = "evaluate"
        /\ last.out = "ok"
        /\ last'.op = "evaluate"
        /\ last'.out = "ok"
        /\ last'.node = last.node)
       => is_valid'[last.node] = is_valid[last.node]]_vars

\* C3: when evaluate has returned on a condition whose operand a was given
\* as the name x of an attribute the bound instance has, is_valid is the
\* predicate applied to the value x has on the instance bound now.
C3_ResolvedOnCurrentInstance ==
    \A c \in Conds :
        (/\ Returned("evaluate", c)
         /\ given[c].a = PyStr("x")
         /\ hasattr(evaluated_instance[c], "x"))
        => is_valid[c] =
               PyBool(Direct(eval_function[c],
                             getattr(evaluated_instance[c], "x"), b[c]))

\* C4: evaluate on a condition no selector was called on ends with an error
\* of its own, which is neither the TypeError of a call of None nor the
\* error a predicate raises.
C4_UnconfiguredErrorIsDistinct ==
    \A c \in Conds :
        (Ended("evaluate", c) /\ given[c].f = NoFunction)
        => last.out \notin {"ok", NoneNotCallable, PredicateRaised}

\* C5: when on(x) has returned on a set, x is the instance of the set and of
\* every node below it.
C5_OnReachesEveryDescendant ==
    \A s \in Sets :
        Returned("on", s) =>
            \A n \in {s} \cup Descendants(s) :
                evaluated_instance[n] = last.arg

\* on was called on the outer set, which holds the inner set and a condition
\* while the inner set holds the other condition.
C5_Witness ==
    /\ Returned("on", "s1")
    /\ last.arg = PyObj(2)
    /\ conditions["s1"] = << "c2", "s2" >>
    /\ conditions["s2"] = << "c1" >>
    /\ evaluated_attribute["c1"] = PyStr("y")
    /\ evaluated_instance["c1"] = PyObj(2)

\* C6 as the claim states it: when attribute(name) has returned on a set,
\* name is the attribute of every node below the set.  Stated for a name
\* the set's own instance has, so that the set itself has stored it.
C6_AttributeOverwritesEveryDescendant ==
    \A s \in Sets :
        (Returned("attribute", s) /\ hasattr(evaluated_instance[s], last.arg.s))
        => \A n \in Descendants(s) : evaluated_attribute[n] = last.arg

\* C6, amended: attribute(name) on a set leaves every node below it with
\* the attribute name if the node's own instance has an attribute of that
\* name, whatever attribute the node had, and with the attribute it had if
\* its instance has none.
C6_AttributeReachesDescendantsThatHaveIt ==
    [][\A s \in Sets :
          (last'.op = "attribute" /\ last'.node = s) =>
              \A n \in Descendants(s) :
                  evaluated_attribute'[n] =
                      IF hasattr(evaluated_instance[n], last'.arg.s)
                      THEN last'.arg
                      ELSE evaluated_attribute[n]]_vars

\* attribute("y") was called on the outer set: the condition in the inner
\* set, whose instance has y, took it, and the outer set's own condition,
\* whose instance has no y, kept x.
C6_Witness ==
    /\ Returned("attribute", "s1")
    /\ last.arg = PyStr("y")
    /\ conditions["s1"] = << "s2", "c2" >>
    /\ conditions["s2"] = << "c1" >>
    /\ evaluated_instance["c1"] = PyObj(1)
    /\ evaluated_attribute["c1"] = PyStr("y")
    /\ evaluated_instance["c2"] = PyObj(2)
    /\ evaluated_attribute["c2"] = PyStr("x")

\* C7: when evaluate has returned on a condition whose operands were given
\* as literals, is_valid is the function of the most recent selector call
\* applied directly to them: to the operand given to when for a function
\* of one operand, to it and the argument of that selector call for a
\* function of two (the setter of b not used since that call).
C7_EvaluateIsDirectInvocation ==
    \A c \in Conds :
        (/\ Returned("evaluate", c)
         /\ Literal(given[c].a)
         /\ \/ given[c].f \in UnaryFunctions
            \/ Literal(given[c].b) /\ ~given[c].setter)
        => is_valid[c] = PyBool(Direct(given[c].f, given[c].a, given[c].b))

\* is_equal("x") was selected and then is_match("lit"): evaluate, with an
\* instance bound, matched the literal given to when against "lit".
C7_Witness ==
    /\ Returned("evaluate", "c1")
    /\ evaluated_instance["c1"] = PyObj(1)
    /\ given["c1"] =
          [a |-> PyStr("lit"), b |-> PyStr("lit"), f |-> "is_match",
           setter |-> FALSE]
    /\ is_valid["c1"] = PyTrue

\* The condition c was configured by on and a selector alone.
OnAndSelectorOnly(c) ==
    /\ given[c].a = PyNone
    /\ given[c].f # NoFunction
    /\ ~given[c].setter
    /\ Literal(given[c].b)

C9_EmptySetIsVacuous ==
    \A s \in Sets :
        (Returned("evaluate", s) /\ conditions[s] = << >>)
        => is_valid[s] =
               CASE logical[s] = "all" -> PyTrue
                 [] logical[s] = "any" -> PyFalse
                 [] logical[s] = "none" -> PyTrue

\* The outer set, with no children under none, has evaluated to True; the
\* inner set has no children either and holds the False of an earlier call.
C9_Witness ==
    /\ Returned("evaluate", "s1")
    /\ conditions["s1"] = << >>
    /\ logical["s1"] = "none"
    /\ is_valid["s1"] = PyTrue
    /\ conditions["s2"] = << >>
    /\ is_valid["s2"] = PyFalse
    /\ logical["s2"] = "all"

\* C10: attribute(name) on a node of either class returns the node, and
\* leaves it with the attribute name if its instance has an attribute of
\* that name and with the attribute it had if not.
C10_AttributeIsStoredIffExposed ==
    [][\A n \in Nodes :
          (last'.op = "attribute" /\ last'.node = n) =>
              /\ last'.out = "ok"
              /\ last'.ret = n
              /\ evaluated_attribute'[n] =
                     IF hasattr(evaluated_instance[n], last'.arg.s)
                     THEN last'.arg
                     ELSE evaluated_attribute[n]]_vars

\* attribute("y") was called on a set whose instance has no y: the set kept
\* the attribute x.
C10_Witness ==
    /\ Returned("attribute", "s2")
    /\ last.arg = PyStr("y")
    /\ evaluated_instance["s2"] = PyObj(2)
    /\ evaluated_attribute["s2"] = PyStr("x")

\* C11: evaluate on a set with a condition below it, at any depth, that no
\* selector was called on ends with an error, and leaves the set's is_valid
\* as it was.
C11_SetDoesNotMaskUnconfiguredChild ==
    [][\A s \in Sets :
          (/\ last'.op = "evaluate"
           /\ last'.node = s
           /\ \E c \in Descendants(s) \cap Conds : eval_function[c] = NoFunction)
          => last'.out # "ok" /\ is_valid'[s] = is_valid[s]]_vars

\* The outer set had evaluated to False; it now holds a condition that is
\* False and the inner set, whose condition has no function, and its
\* evaluate has ended with the TypeError, leaving False.
C11_Witness ==
    /\ Ended("evaluate", "s1")
    /\ last.out = NoneNotCallable
    /\ conditions["s1"] = << "c2", "s2" >>
    /\ conditions["s2"] = << "c1" >>
    /\ eval_function["c1"] = NoFunction
    /\ is_valid["c2"] = PyFalse
    /\ logical["s1"] = "none"
    /\ is_valid["s1"] = PyFalse

\* C12: get_condition and remove_condition called with a node that is not in
\* the mapping of the set end with KeyError, an outcome no other failure of
\* the model has, and leave every child mapping as it was.
C12_UnknownChildIsAnError ==
    [][\A s \in Sets : \A n \in Nodes :
          (/\ last'.op \in {"get_condition", "remove_condition"}
           /\ last'.node = s
           /\ last'.child = n
           /\ n \notin Range(conditions[s]))
          => /\ last'.out = "KeyError"
             /\ last'.out \notin {"ok", NoneNotCallable, PredicateRaised}
             /\ last'.ret = ""
             /\ conditions' = conditions]_vars

C12_Witness ==
    /\ Ended("remove_condition", "s1")
    /\ last.child = "c2"
    /\ last.out = "KeyError"
    /\ conditions["s1"] = << "s2", "c1" >>
    /\ conditions["s2"] = << "c1" >>

\* C13: every call on a Condition but evaluate (on, attribute, when, the
\* setter of b, every selector) leaves its is_valid as it was.
C13_OnlyEvaluateChangesValidity ==
    [][\A c \in Conds :
          (last'.node = c /\ last'.op # "evaluate")
          => is_valid'[c] = is_valid[c]]_vars

\* The condition holds True, and the operand when has just stored is one its
\* function is False on.
C13_Witness ==
    /\ Returned("when", "c1")
    /\ a["c1"] = PyStr("")
    /\ eval_function["c1"] = "is_integer"
    /\ is_valid["c1"] = PyTrue

\* C14: when evaluate on a set returns, every condition below the set holds
\* a result, the one its function gives on its operands, resolved on its
\* instance, as they were when the call was made.
C14_EveryDescendantEvaluatedOnItsBindings ==
    [][\A s \in Sets :
          (last'.op = "evaluate" /\ last'.node = s /\ last'.out = "ok")
          => \A c \in Descendants(s) \cap Conds :
                /\ is_valid'[c] # NotEvaluated
                /\ is_valid'[c] =
                      Invoke(eval_function[c],
                             get_value(evaluated_instance[c], a[c]),
                             get_value(evaluated_instance[c], b[c]))]_vars

\* C15: the is_valid of a Condition is 'Not evaluated.' at creation and
\* stays so under every call but its evaluate; an evaluate that returns
\* leaves True or False; and it is never anything but 'Not evaluated.',
\* True or False.
C15_ValidityStateMachine ==
    /\ \A c \in Conds : last.op = "init" => is_valid[c] = NotEvaluated
    /\ [][\A c \in Conds :
             /\ is_valid'[c] \in {NotEvaluated, PyTrue, PyFalse}
             /\ (last'.op = "evaluate" /\ last'.node = c /\ last'.out = "ok")
                => is_valid'[c] \in {PyTrue, PyFalse}
             /\ (is_valid[c] = NotEvaluated
                    /\ ~(last'.op = "evaluate" /\ last'.node = c))
                => is_valid'[c] = NotEvaluated]_vars

\* An evaluate of is_greater on the operands 5 and 3 has returned and left
\* True.
C15_Witness ==
    /\ Returned("evaluate", "c1")
    /\ eval_function["c1"] = "is_greater"
    /\ a["c1"] = PyInt(5)
    /\ b["c1"] = PyInt(3)
    /\ is_valid["c1"] = PyTrue

\* The sequence keys holds no node twice.
NoDuplicates(keys) ==
    \A i, j \in 1..Len(keys) : keys[i] = keys[j] => i = j

\* The sequence keys without the node n, the order of the others kept.
Without(keys, n) ==
    IF keys = << >> THEN << >>
    ELSE LET k == CHOOSE i \in 1..Len(keys) :
                     keys[i] = n \/ (i = Len(keys) /\ n \notin Range(keys))
         IN  IF keys[k] = n
             THEN [i \in 1..(Len(keys) - 1) |->
                      IF i < k THEN keys[i] ELSE keys[i + 1]]
             ELSE keys

\* C16: the mapping of a set is empty at creation and holds each node once;
\* add_condition of a node already in it changes nothing and of a new node
\* puts it last;
\* remove_condition takes the node out and keeps the order of the others;
\* evaluate, which stores every child again, leaves keys and order as they
\* were; and no call on a set changes the mapping of another set.
C16_ChildMapping ==
    /\ \A s \in Sets : last.op = "init" => conditions[s] = << >>
    /\ [][\A s \in Sets :
             LET old == conditions[s]
                 new == conditions'[s]
                 n == last'.child
             IN  /\ NoDuplicates(new)
                 /\ CASE last'.node = s /\ last'.op = "add_condition" ->
                           IF n \in Range(old)
                           THEN new = old
                           ELSE new = old \o << n >>
                      [] last'.node = s /\ last'.op = "remove_condition" ->
                           /\ new = Without(old, n)
                           /\ Range(new) = Range(old) \ {n}
                      [] last'.node = s /\ last'.op = "reset" ->
                           new = << >>
                      [] OTHER -> new = old]_vars

\* An evaluate of the outer set has returned, every child stored again, and
\* the mappings hold the inner set before the condition, and a condition.
C16_Witness ==
    /\ Returned("evaluate", "s1")
    /\ conditions["s1"] = << "s2", "c2" >>
    /\ conditions["s2"] = << "c1" >>
    /\ is_valid["c1"] = PyTrue
    /\ is_valid["c2"] = PyTrue

\* The operand v is not resolved on the instance of the condition c: it is
\* no string, or a string that names no attribute of the instance.
Unresolved(c, v) == v.t # "str" \/ ~hasattr(evaluated_instance[c], v.s)

\* C17: in evaluate an operand that is no string, or a string that names no
\* attribute of the bound instance (none bound included), is used as it
\* is: it is the value the condition holds afterwards, and when both
\* operands are such the call ends as the function ends on the two of them,
\* with the result the function gives on them.
C17_AttributeFallback ==
    [][\A c \in Conds :
          (last'.op = "evaluate" /\ last'.node = c)
          => /\ Unresolved(c, a[c]) => a'[c] = a[c]
             /\ Unresolved(c, b[c]) => b'[c] = b[c]
             /\ last'.out # NoAttribute
             /\ (Unresolved(c, a[c]) /\ Unresolved(c, b[c]))
                => /\ last'.out = Outcome(eval_function[c], a[c], b[c])
                   /\ last'.out = "ok"
                      => is_valid'[c] = Invoke(eval_function[c], a[c], b[c])]_vars

\* The instance has no attribute y, and is_string on the operand "y" has
\* returned True, the operand still "y".
C17_Witness ==
    /\ Returned("evaluate", "c1")
    /\ evaluated_instance["c1"] = PyObj(2)
    /\ a["c1"] = PyStr("y")
    /\ given["c1"].a = PyStr("y")
    /\ eval_function["c1"] = "is_string"
    /\ is_valid["c1"] = PyTrue

\* C18: the is_valid of a set is True at creation; only an evaluate of the
\* set, its own or within the evaluate of a set above it, changes it; and
\* an evaluate of the set that returns leaves the combinator of the set
\* applied to the results its children then hold.
C18_SetValidity ==
    /\ \A s \in Sets : last.op = "init" => is_valid[s] = PyTrue
    /\ [][\A s \in Sets :
             /\ is_valid'[s] \in {PyTrue, PyFalse}
             /\ is_valid'[s] # is_valid[s]
                => /\ last'.op = "evaluate"
                   /\ last'.node \in Sets
                   /\ last'.node = s \/ s \in Descendants(last'.node)
             /\ (last'.op = "evaluate" /\ last'.node = s /\ last'.out = "ok")
                => is_valid'[s] =
                      Aggregate(logical[s],
                                [k \in 1..Len(conditions[s]) |->
                                    is_valid'[conditions[s][k]]])]_vars

\* The set holds True and one child that holds True, and the combinator
\* 'none', under which evaluate would give False, has just been selected.
C18_Witness ==
    /\ Returned("none", "s1")
    /\ conditions["s1"] = << "c1" >>
    /\ is_valid["c1"] = PyTrue
    /\ is_valid["s1"] = PyTrue
    /\ evaluated_instance["s1"] = PyObj(1)
    /\ evaluated_attribute["s1"] = PyStr("x")

\* The conditions c and d are bound to the same instance and hold the same
\* operands and the same function.
Agree(c, d) ==
    /\ evaluated_instance[c] = evaluated_instance[d]
    /\ a[c] = a[d]
    /\ b[c] = b[d]
    /\ eval_function[c] = eval_function[d]

\* C19: when a condition is evaluated, it ends as, and is left with the
\* result that, the evaluate of a condition gives that agrees with it on
\* instance, operands and function and is bound to another attribute.
C19_AttributeDoesNotInfluenceEvaluation ==
    [][\A c, d \in Conds :
          (/\ last'.op = "evaluate"
           /\ last'.node = c
           /\ d # c
           /\ Agree(c, d)
           /\ evaluated_attribute[c] # evaluated_attribute[d])
          => LET twin == EvalCondition(StateNow, d)
             IN  /\ last'.out = twin.out
                 /\ is_valid'[c] = twin.is_valid[d]
                 /\ a'[c] = twin.a[d]
                 /\ b'[c] = twin.b[d]]_vars

\* Both conditions are on the same instance with the operand 5 and
\* is_integer, one bound to the attribute x and the other to none, and both
\* hold True, the evaluate of the first the call that has just returned.
C19_Witness ==
    /\ Returned("evaluate", "c1")
    /\ Agree("c1", "c2")
    /\ evaluated_instance["c1"] = PyObj(1)
    /\ evaluated_attribute["c1"] = PyStr("x")
    /\ evaluated_attribute["c2"] = PyNone
    /\ given["c1"].a = PyInt(5)
    /\ given["c2"].a = PyInt(5)
    /\ eval_function["c1"] = "is_integer"
    /\ is_valid["c1"] = PyTrue
    /\ is_valid["c2"] = PyTrue

\* The call that ends in the next state is op, on the node n or on a set
\* above it.
ReachedBy(op, n) ==
    /\ last'.op = op
    /\ \/ last'.node = n
       \/ last'.node \in Sets /\ n \in Descendants(last'.node)

\* C20: add_condition leaves the instance and the attribute of every node,
\* the added one included, and the combinator and is_valid of the set as
\* they were; the instance of a node changes only in an on, and its
\* attribute only in an attribute, called on it or on a set above it.
C20_AddConditionDoesNotBind ==
    [][/\ last'.op = "add_condition"
          => /\ evaluated_instance' = evaluated_instance
             /\ evaluated_attribute' = evaluated_attribute
             /\ logical' = logical
             /\ is_valid' = is_valid
       /\ \A n \in Nodes :
             /\ evaluated_instance'[n] # evaluated_instance[n]
                => ReachedBy("on", n)
             /\ evaluated_attribute'[n] # evaluated_attribute[n]
                => ReachedBy("attribute", n)]_vars

\* The set is bound to an instance and to its attribute x, and the
\* condition that has just been added to it is bound to neither.
C20_Witness ==
    /\ Returned("add_condition", "s1")
    /\ last.child = "c1"
    /\ conditions["s1"] = << "c1" >>
    /\ evaluated_instance["s1"] = PyObj(1)
    /\ evaluated_attribute["s1"] = PyStr("x")
    /\ evaluated_instance["c1"] = PyNone
    /\ evaluated_attribute["c1"] = PyNone

====
